---------------------------- MODULE Spec2Model ----------------------------
(***************************************************************************)
(* Model of llm_code_context_generator/main.py: the policy loader          *)
(* (load_config), the .gitignore loader (load_gitignore_spec), the         *)
(* directory walk with its layered filter (discover_files) and the         *)
(* aggregation loop of main.                                               *)
(*                                                                         *)
(* Paths, file names and extensions are strings; the string functions the  *)
(* code calls (replace, startswith, splitext, relpath, join, lstrip) are   *)
(* computed character by character.  The platform is POSIX: os.path.sep is *)
(* "/".  The scan root exists and is a readable directory (main returns    *)
(* before load_config otherwise).                                          *)
(***************************************************************************)
EXTENDS Integers, Sequences, FiniteSets, TLC

VARIABLES
    tomllib,            \* TRUE iff a TOML library was imported (lines 12-18)
    pyproject,          \* the pyproject.toml at the root, as tomllib would read it
    gitignore,          \* the .gitignore at the root: its lines, or NoFile
    unreadable,         \* root-relative paths whose open/scandir raises PermissionError
    pc,                 \* position of main
    config,             \* the policy load_config returned
    gitignore_spec,     \* the compiled matcher, or None
    stack,              \* directories os.walk has still to yield, next first
    files_to_process,   \* discover_files' result list (full paths)
    next_file,          \* index into files_to_process of the aggregation loop
    output,             \* blocks written to the output artifact
    log                 \* records handed to logging

vars == <<tomllib, pyproject, gitignore, unreadable, pc, config, gitignore_spec,
          stack, files_to_process, next_file, output, log>>

---------------------------------------------------------------------------
(* Bounds of the model *)

\* most keys one [tool.llmcontext] section sets
MaxKeys == 2
\* deepest directory level below the scan root
MaxDepth == 2

---------------------------------------------------------------------------
(* Strings *)

Char(s, i) == SubSeq(s, i, i)

Range(seq) == {seq[i] : i \in 1..Len(seq)}

\* str.startswith
StartsWith(s, p) == Len(p) <= Len(s) /\ SubSeq(s, 1, Len(p)) = p

\* str.replace for a one-character old
RECURSIVE Replace(_, _, _)
Replace(s, old, new) ==
    IF s = "" THEN ""
    ELSE (IF Char(s, 1) = old THEN new ELSE Char(s, 1))
             \o Replace(SubSeq(s, 2, Len(s)), old, new)

\* str.rfind for a one-character c, 1-based; 0 when c does not occur
RFind(s, c) ==
    LET hits == {i \in 1..Len(s) : Char(s, i) = c}
    IN  IF hits = {} THEN 0 ELSE CHOOSE i \in hits : \A j \in hits : j <= i

\* str.lstrip for a one-character c
RECURSIVE LStrip(_, _)
LStrip(s, c) ==
    IF s # "" /\ Char(s, 1) = c THEN LStrip(SubSeq(s, 2, Len(s)), c) ELSE s

\* the characters of a string, in order
Chars(s) == [i \in 1..Len(s) |-> Char(s, i)]

os_path_sep == "/"

\* os.path.join of two parts, the second relative
Join(a, b) == a \o os_path_sep \o b

\* os.path.relpath of a path at or below start
RelPath(path, start) ==
    IF path = start THEN "."
    ELSE SubSeq(path, Len(start) + 2, Len(path))

\* os.path.splitext(p)[1]: from the last dot of the last component, unless
\* only dots precede it there
SplitExt(p) ==
    LET sepIndex == RFind(p, os_path_sep)
        dotIndex == RFind(p, ".")
    IN  IF dotIndex > sepIndex
           /\ \E k \in (sepIndex + 1)..(dotIndex - 1) : Char(p, k) # "."
        THEN SubSeq(p, dotIndex, Len(p))
        ELSE ""

\* the POSIX form of a path: p.replace(os.path.sep, '/')
Posix(p) == Replace(p, os_path_sep, "/")

---------------------------------------------------------------------------
(* Default configuration, lines 20-88 *)

CONFIG_FILENAME == "pyproject.toml"

DEFAULT_IGNORED_DIRS ==
    { ".git", ".github", ".vscode", ".idea", "node_modules", "__pycache__", "venv",
      ".venv", "env", ".env", ".pytest_cache", ".mypy_cache", ".tox", "htmlcov",
      "build", "dist", "target", "out", "bin", "obj", "wheels", "dist-packages",
      "__MACOSX", "*.egg-info", "site-packages", "docs_build", "builddocs",
      "bower_components", "jspm_packages" }

DEFAULT_IGNORED_FILES ==
    { ".env", ".env.local", ".env.production", ".env.development", ".env.test", ".env.*",
      "package-lock.json", "yarn.lock", "pnpm-lock.yaml",
      "poetry.lock", "Pipfile.lock", "composer.lock", "Gemfile.lock", "go.sum",
      "*.swp", "*.swo", "*.swn", ".*.swp",
      "thumbs.db",
      ".travis.yml", "circle.yml", "appveyor.yml", "Jenkinsfile" }

DEFAULT_IGNORED_EXTENSIONS ==
    { ".png", ".jpg", ".jpeg", ".gif", ".svg", ".ico", ".webp", ".bmp", ".tiff", ".psd",
      ".mp4", ".mov", ".avi", ".mkv", ".webm", ".flv", "wmv",
      ".mp3", ".wav", ".ogg", ".flac", ".m4a", "aac",
      ".woff", ".woff2", ".ttf", ".otf", ".eot",
      ".zip", ".rar", ".tar", ".gz", ".7z", ".bz2", "tgz",
      ".pdf", ".docx", ".xlsx", ".pptx", ".epub", ".mobi", ".csv", ".xls", ".doc", ".ppt",
      ".pyc", ".pyo", ".pyd", ".o", ".so", ".a",
      ".log", ".lock", ".db", ".sqlite3", ".sqlitedb", ".dump", "bak", ".tmp", ".dat",
      ".DS_Store",
      ".class",
      ".dll", ".exe", ".lib",
      ".bin", ".iso", ".out", ".elf",
      ".obj", ".o",
      ".jar",
      ".wasm",
      ".key", ".pem", ".crt", ".cer", ".p12", ".pfx", ".jks", ".p7b", "gpg",
      ".gitignore", ".gitattributes", ".dockerignore", ".gitkeep",
      ".md", ".markdown", ".rst",
      ".sh", ".bat", ".ps1", ".cmd",
      ".xml", ".json", ".yaml", ".yml", ".toml", ".ini" }

DEFAULT_ALLOWED_DIRS == {}
DEFAULT_ALLOWED_FILES == {}
DEFAULT_ALLOWED_EXTENSIONS == {}

AllowedKeys == <<"allowed_dirs", "allowed_files", "allowed_extensions">>
IgnoredKeys == <<"ignored_dirs", "ignored_files", "ignored_extensions">>
PolicyKeys == Range(AllowedKeys) \cup Range(IgnoredKeys)

\* the dictionary load_config starts from, lines 126-133
DefaultConfig ==
    [ allowed_dirs       |-> DEFAULT_ALLOWED_DIRS,
      allowed_files      |-> DEFAULT_ALLOWED_FILES,
      allowed_extensions |-> DEFAULT_ALLOWED_EXTENSIONS,
      ignored_dirs       |-> DEFAULT_IGNORED_DIRS,
      ignored_files      |-> DEFAULT_IGNORED_FILES,
      ignored_extensions |-> DEFAULT_IGNORED_EXTENSIONS ]

---------------------------------------------------------------------------
(* TOML values and pyproject.toml documents *)

Arr(items) == [type |-> "array", items |-> items, str |-> ""]
Str(s)     == [type |-> "string", items |-> <<>>, str |-> s]
Integer    == [type |-> "integer", items |-> <<>>, str |-> ""]

\* iter(v) raises TypeError for a value that is not iterable
NotIterable(v) == v.type = "integer"

\* what set(v) and set.update(v) iterate over: the items of an array, the
\* characters of a string
Iterate(v) == IF v.type = "array" THEN v.items ELSE Chars(v.str)

\* set(v)
SetOf(v) == Range(Iterate(v))

NoSection == [k \in {} |-> Integer]

\* a pyproject.toml: absent, unparsable, or a document whose "tool" and
\* "tool.llmcontext" entries are each absent, a table or a non-table value
Missing   == [file |-> "missing", tool |-> "absent", llmcontext |-> "absent", section |-> NoSection]
Malformed == [file |-> "malformed", tool |-> "absent", llmcontext |-> "absent", section |-> NoSection]
Document(tool, llmcontext, section) ==
    [file |-> "ok", tool |-> tool, llmcontext |-> llmcontext, section |-> section]

Log(level, msg, about) == [level |-> level, msg |-> msg, about |-> about]


---------------------------------------------------------------------------
(* load_config, lines 119-165 *)

\* user_config.get(key, default) as a TOML value
Get(user_config, key, default) ==
    IF key \in DOMAIN user_config THEN user_config[key] ELSE default

\* lines 148-150: an 'allowed' list from TOML replaces the default
ReplaceDefault(cfg, user_config, key) ==
    [cfg EXCEPT ![key] =
        IF key \in DOMAIN user_config THEN SetOf(user_config[key])
        ELSE DefaultConfig[key]]

\* mutant: an 'ignored' list from TOML replaces the defaults
AddToDefault_Replaces(cfg, user_config, key) ==
    [cfg EXCEPT ![key] =
        IF key \in DOMAIN user_config THEN SetOf(user_config[key]) ELSE cfg[key]]

\* lines 153-155: an 'ignored' list from TOML is added to the defaults
AddToDefault(cfg, user_config, key) ==
    [cfg EXCEPT ![key] = cfg[key] \cup SetOf(Get(user_config, key, Arr(<<>>)))]

\* the six statements of lines 148-155, in order
ApplyOrder == AllowedKeys \o IgnoredKeys

\* statement i raises TypeError: set() or update() of a non-iterable
Raises(user_config, i) ==
    ApplyOrder[i] \in DOMAIN user_config /\ NotIterable(user_config[ApplyOrder[i]])

\* lines 148-155 from statement i on; the first statement that raises leaves
\* the assignments before it in place
RECURSIVE ApplyFrom(_, _, _)
ApplyFrom(cfg, user_config, i) ==
    IF i > Len(ApplyOrder) THEN [config |-> cfg, raised |-> FALSE]
    ELSE IF Raises(user_config, i) THEN [config |-> cfg, raised |-> TRUE]
    ELSE ApplyFrom(
            IF ApplyOrder[i] \in Range(AllowedKeys)
            THEN ReplaceDefault(cfg, user_config, ApplyOrder[i])
            ELSE AddToDefault(cfg, user_config, ApplyOrder[i]),
            user_config, i + 1)

\* load_config: the policy it returns and the records it logs
load_config(has_tomllib, doc) ==
    LET loading  == Log("INFO", "Loading project configuration", CONFIG_FILENAME)
        failed   == Log("ERROR", "Error reading or parsing", CONFIG_FILENAME)
        found    == Log("INFO", "Found [tool.llmcontext] section", CONFIG_FILENAME)
        applied  == ApplyFrom(DefaultConfig, doc.section, 1)
    IN  IF has_tomllib /\ doc.file # "missing"
        THEN \* line 140: tomllib.load raises on a malformed file
             IF doc.file = "malformed"
             THEN [config |-> DefaultConfig, log |-> <<loading, failed>>]
             \* line 142: .get on a "tool" that is no table raises AttributeError
             ELSE IF doc.tool = "scalar"
             THEN [config |-> DefaultConfig, log |-> <<loading, failed>>]
             \* line 144: an absent or empty section is falsy
             ELSE IF doc.tool = "absent" \/ doc.llmcontext = "absent"
                     \/ (doc.llmcontext = "table" /\ DOMAIN doc.section = {})
             THEN [config |-> DefaultConfig,
                   log |-> <<loading, Log("INFO", "No [tool.llmcontext] section found", CONFIG_FILENAME)>>]
             \* line 148: .get on a truthy non-table section raises AttributeError
             ELSE IF doc.llmcontext = "scalar"
             THEN [config |-> DefaultConfig, log |-> <<loading, found, failed>>]
             ELSE [config |-> applied.config,
                   log |-> IF applied.raised THEN <<loading, found, failed>>
                           ELSE <<loading, found>>]
        ELSE [config |-> DefaultConfig,
              log |-> IF ~has_tomllib
                      THEN <<Log("WARNING", "TOML library not found", CONFIG_FILENAME)>>
                      ELSE <<Log("INFO", "No pyproject.toml found", CONFIG_FILENAME)>>]

\* main, line 272
LoadConfig ==
    /\ pc = "load_config"
    /\ config' = load_config(tomllib, pyproject).config
    /\ log' = log \o load_config(tomllib, pyproject).log
    /\ pc' = "load_gitignore"
    /\ UNCHANGED <<tomllib, pyproject, gitignore, unreadable, gitignore_spec,
                   stack, files_to_process, next_file, output>>

---------------------------------------------------------------------------
(* The configuration files load_config is run on *)

\* a .gitignore: its lines when the file exists
NoFile == [exists |-> FALSE, lines |-> <<>>]
File(lines) == [exists |-> TRUE, lines |-> lines]
\* an Optional[PathSpec]: its patterns unless it is None
None == [is_none |-> TRUE, patterns |-> <<>>]
PathSpec(patterns) == [is_none |-> FALSE, patterns |-> patterns]
NoConfig == [k \in PolicyKeys |-> {}]

\* sample entries a user writes under each key
SampleEntries ==
    [ allowed_dirs       |-> <<"src/", "src/">>,
      allowed_files      |-> <<"build/run.log", ".env">>,
      allowed_extensions |-> <<".log", ".md">>,
      ignored_dirs       |-> <<"src/src", "build">>,
      ignored_files      |-> <<"main.go", ".env">>,
      ignored_extensions |-> <<".go", ".log">>,
      other              |-> <<"x">> ]

\* the values a key of the section may hold: an empty array, an array of
\* strings, a string in place of the array, a number in place of the array
ValuePool(key) ==
    { Arr(<<>>), Arr(SampleEntries[key]), Str(SampleEntries[key][1]), Integer }

SectionKeys == PolicyKeys \cup {"other"}

\* the sections that set at most MaxKeys keys
Sections ==
    UNION { { s \in [K -> UNION {ValuePool(k) : k \in K}] : \A k \in K : s[k] \in ValuePool(k) }
            : K \in {K \in SUBSET SectionKeys : Cardinality(K) <= MaxKeys} }

ConfigDocuments ==
    { Missing, Malformed,
      Document("absent", "absent", NoSection),
      Document("scalar", "absent", NoSection),
      Document("table", "absent", NoSection),
      Document("table", "scalar", NoSection) }
    \cup { Document("table", "table", s) : s \in Sections }

InitConfig ==
    /\ tomllib \in BOOLEAN
    /\ pyproject \in ConfigDocuments
    /\ gitignore = NoFile
    /\ unreadable = {}
    /\ pc = "load_config"
    /\ config = NoConfig
    /\ gitignore_spec = None
    /\ stack = <<>>
    /\ files_to_process = <<>>
    /\ next_file = 1
    /\ output = <<>>
    /\ log = <<>>

\* load_config alone, over the configuration files
SpecConfig == InitConfig /\ [][LoadConfig]_vars


---------------------------------------------------------------------------
(* The .gitignore matcher: pathspec's 'gitwildmatch' patterns, for lines    *)
(* built from names, "*", "?", "/" and a leading "!" or "#"                 *)

\* one segment-level glob against a text: "*" is any run of characters other
\* than "/", "?" is one such character
RECURSIVE GlobMatch(_, _)
GlobMatch(glob, text) ==
    IF glob = "" THEN text = ""
    ELSE LET g == Char(glob, 1)
             rest == SubSeq(glob, 2, Len(glob))
         IN  IF g = "*"
             THEN \/ GlobMatch(rest, text)
                  \/ /\ text # "" /\ Char(text, 1) # "/"
                     /\ GlobMatch(glob, SubSeq(text, 2, Len(text)))
             ELSE /\ text # ""
                  /\ IF g = "?" THEN Char(text, 1) # "/" ELSE Char(text, 1) = g
                  /\ GlobMatch(rest, SubSeq(text, 2, Len(text)))

\* one line of the file as a pattern: a blank line or a comment is a null
\* pattern; "!" negates; a trailing "/" restricts to directories; a "/"
\* elsewhere anchors the pattern to the root
CompileLine(line) ==
    IF line = "" \/ Char(line, 1) = "#"
    THEN [include |-> "null", anchored |-> FALSE, dir_only |-> FALSE, glob |-> ""]
    ELSE LET negated == Char(line, 1) = "!"
             body    == IF negated THEN SubSeq(line, 2, Len(line)) ELSE line
             dirOnly == Char(body, Len(body)) = "/"
             path    == IF dirOnly THEN SubSeq(body, 1, Len(body) - 1) ELSE body
             anchor  == RFind(path, "/") > 0
         IN  [ include  |-> IF negated THEN "no" ELSE "yes",
               anchored |-> anchor,
               dir_only |-> dirOnly,
               glob     |-> LStrip(path, "/") ]

\* PathSpec.from_lines('gitwildmatch', f), line 174
FromLines(lines) == PathSpec([i \in 1..Len(lines) |-> CompileLine(lines[i])])

\* a pattern matches a path when its glob matches a run of whole components:
\* from the start (or, unanchored, from any component) up to the path's end
\* or a "/" (a directory-only pattern needs the "/"); so a pattern that names
\* a directory also matches every path beneath it
PatternMatches(pattern, path) ==
    /\ pattern.include # "null"
    /\ \E i \in 1..Len(path) :
          /\ i = 1 \/ (~pattern.anchored /\ Char(path, i - 1) = "/")
          /\ \E j \in i..Len(path) :
                /\ Char(path, j) # "/"
                /\ IF j = Len(path) THEN ~pattern.dir_only ELSE Char(path, j + 1) = "/"
                /\ GlobMatch(pattern.glob, SubSeq(path, i, j))

\* spec.match_file(path): the last pattern that matches decides
match_file(spec, path) ==
    LET hits == {i \in 1..Len(spec.patterns) : PatternMatches(spec.patterns[i], path)}
    IN  /\ hits # {}
        /\ spec.patterns[CHOOSE i \in hits : \A j \in hits : j <= i].include = "yes"

\* 'if spec': None is falsy, and so is a PathSpec of no patterns
Truthy(spec) == ~spec.is_none /\ Len(spec.patterns) > 0

\* load_gitignore_spec, lines 168-175
load_gitignore_spec(file) ==
    IF file.exists THEN FromLines(file.lines) ELSE None

\* main, line 277
LoadGitignoreSpec ==
    /\ pc = "load_gitignore"
    /\ gitignore_spec' = load_gitignore_spec(gitignore)
    /\ log' = log \o (IF gitignore.exists
                      THEN <<Log("INFO", "Loading .gitignore rules", ".gitignore")>>
                      ELSE <<>>)
    /\ pc' = "discover"
    /\ UNCHANGED <<tomllib, pyproject, gitignore, unreadable, config, stack,
                   files_to_process, next_file, output>>

---------------------------------------------------------------------------
(* The project tree *)

\* os.path.abspath(args.root_directory), line 266
root_directory == "/work/proj"

\* the entries scandir returns for a directory, in its order
DirNames == <<"build", "src">>
FileNames == <<"main.go", "run.log", ".env", "logo.png">>

\* number of components of a directory below the root
Depth(dirpath) ==
    IF dirpath = root_directory THEN 0
    ELSE Cardinality({i \in (Len(root_directory) + 1)..Len(dirpath) : Char(dirpath, i) = "/"})

\* the subdirectories and the files of a directory
ListDirs(dirpath) == IF Depth(dirpath) < MaxDepth THEN DirNames ELSE <<>>
ListFiles(dirpath) == FileNames

\* the bytes of a file: text, except a Latin-1 source file and the images
Content(relative_path) ==
    LET name == SubSeq(relative_path, RFind(relative_path, "/") + 1, Len(relative_path))
    IN  IF name = "logo.png" THEN <<137, 80, 78, 71>>
        ELSE IF relative_path = "src/main.go" THEN <<47, 47, 32, 233, 10>>
        ELSE IF name = ".env" THEN <<>>
        ELSE <<104, 105, 10>>

---------------------------------------------------------------------------
(* discover_files, lines 178-257 *)

\* line 199
allowed_paths == {Posix(p) : p \in config.allowed_dirs}

\* lines 207 and 215
relative_dir_path(dirpath, d) == Posix(RelPath(Join(dirpath, d), root_directory))

\* mutant: only the bare name is looked up
IgnoredDir_NameOnly(d, rel_dir) == d \in config.ignored_dirs

\* line 208
IgnoredDir(d, rel_dir) == d \in config.ignored_dirs \/ rel_dir \in config.ignored_dirs

\* line 217
GitignoredDir(rel_dir) == match_file(gitignore_spec, rel_dir \o "/")

\* lines 204-218
dirs_to_remove(dirpath, dirnames) ==
    LET by_config == {d \in Range(dirnames) : IgnoredDir(d, relative_dir_path(dirpath, d))}
        by_gitignore ==
            IF Truthy(gitignore_spec)
            THEN {d \in Range(dirnames) \ by_config : GitignoredDir(relative_dir_path(dirpath, d))}
            ELSE {}
    IN  by_config \cup by_gitignore

\* mutant: the extension is not consulted
is_force_allowed_PathOnly(relative_path, extension) ==
    relative_path \in config.allowed_files

\* lines 229-230
is_force_allowed(relative_path, extension) ==
    \/ relative_path \in config.allowed_files
    \/ (extension # "" /\ extension \in config.allowed_extensions)

\* mutant: the 'allowed_dirs' check is skipped
is_allowed_Always(relative_path) == TRUE

\* lines 237-241: TRUE when the file passes the 'allowed_dirs' check
is_allowed(relative_path) ==
    allowed_paths # {} => \E p \in allowed_paths : StartsWith(relative_path, p)

\* mutant: the relative path is not looked up
is_ignored_NoPath(filename, relative_path, extension) ==
    \/ filename \in config.ignored_files
    \/ (extension # "" /\ extension \in config.ignored_extensions)

\* lines 244-246
is_ignored(filename, relative_path, extension) ==
    \/ filename \in config.ignored_files
    \/ relative_path \in config.ignored_files
    \/ (extension # "" /\ extension \in config.ignored_extensions)

\* line 250
is_gitignored(relative_path) ==
    Truthy(gitignore_spec) /\ match_file(gitignore_spec, relative_path)

\* mutant: a match of 'allowed_dirs' includes the file as a force-allow does
Keeps_AllowedDirsOverride(dirpath, filename) ==
    LET full_path     == Join(dirpath, filename)
        relative_path == Posix(RelPath(full_path, root_directory))
        extension     == SplitExt(filename)
    IN  \/ is_force_allowed(relative_path, extension)
        \/ \E p \in allowed_paths : StartsWith(relative_path, p)
        \/ /\ is_allowed(relative_path)
           /\ ~is_ignored(filename, relative_path, extension)
           /\ ~is_gitignored(relative_path)

\* lines 223-255 for one file: TRUE when full_path is appended
Keeps(dirpath, filename) ==
    LET full_path     == Join(dirpath, filename)
        relative_path == Posix(RelPath(full_path, root_directory))
        extension     == SplitExt(filename)
    IN  \/ is_force_allowed(relative_path, extension)
        \/ /\ is_allowed(relative_path)
           /\ ~is_ignored(filename, relative_path, extension)
           /\ ~is_gitignored(relative_path)

\* scandir of the directory raises PermissionError
ScandirFails(dirpath) == RelPath(dirpath, root_directory) \in unreadable

\* lines 189-201: discover_files is entered and os.walk is called at the root
EnterDiscover ==
    /\ pc = "discover"
    /\ files_to_process' = <<>>
    /\ stack' = <<root_directory>>
    /\ pc' = "walking"
    /\ UNCHANGED <<tomllib, pyproject, gitignore, unreadable, config, gitignore_spec,
                   next_file, output, log>>

\* one iteration of the loop of line 201: os.walk yields the next directory,
\* or yields nothing for a directory it cannot list (onerror is None, so the
\* error is dropped without a word); lines 204-255 then run on what it yields
\* and os.walk goes on into the subdirectories left in dirnames
WalkDir ==
    /\ pc = "walking"
    /\ stack # <<>>
    /\ LET dirpath   == Head(stack)
           dirnames  == ListDirs(dirpath)
           filenames == ListFiles(dirpath)
           removed   == dirs_to_remove(dirpath, dirnames)
           left      == SelectSeq(dirnames, LAMBDA d : d \notin removed)
           kept      == SelectSeq(filenames, LAMBDA f : Keeps(dirpath, f))
       IN  IF ScandirFails(dirpath)
           THEN /\ stack' = Tail(stack)
                /\ UNCHANGED files_to_process
           ELSE /\ stack' = [i \in 1..Len(left) |-> Join(dirpath, left[i])] \o Tail(stack)
                /\ files_to_process' =
                       files_to_process \o [i \in 1..Len(kept) |-> Join(dirpath, kept[i])]
    /\ UNCHANGED <<tomllib, pyproject, gitignore, unreadable, pc, config, gitignore_spec,
                   next_file, output, log>>

\* line 257: the walk is over and discover_files returns
Return ==
    /\ pc = "walking"
    /\ stack = <<>>
    /\ pc' = "discovered"
    /\ UNCHANGED <<tomllib, pyproject, gitignore, unreadable, config, gitignore_spec,
                   stack, files_to_process, next_file, output, log>>


---------------------------------------------------------------------------
(* The aggregation loop of main, lines 281-305 *)

\* the errors argument of open(), line 291
DecodeErrors == "ignore"

\* a byte that is valid UTF-8 where it stands; the files hold no multi-byte
\* sequence, so that is an ASCII byte
ValidByte(b) == b < 128

\* content_handle.read(): with errors='strict' a malformed byte raises
\* UnicodeDecodeError, with errors='ignore' it is dropped
Decode(bytes, errors) ==
    IF errors = "strict" /\ \E i \in 1..Len(bytes) : ~ValidByte(bytes[i])
    THEN [raised |-> TRUE, text |-> <<>>]
    ELSE [raised |-> FALSE, text |-> SelectSeq(bytes, ValidByte)]

\* open(full_path) raises PermissionError
OpenFails(full_path) == RelPath(full_path, root_directory) \in unreadable

\* lines 281-287: nothing found ends the run; otherwise the output is opened
\* and the header written
OpenOutput ==
    /\ pc = "discovered"
    /\ IF files_to_process = <<>>
       THEN /\ log' = Append(log, Log("WARNING", "No files found to process", ""))
            /\ pc' = "done"
            /\ UNCHANGED output
       ELSE /\ output' = <<[heading |-> "# Context for Project", lang |-> "", text |-> <<>>]>>
            /\ log' = Append(log, Log("INFO", "Processing files", ""))
            /\ pc' = "write"
    /\ next_file' = 1
    /\ UNCHANGED <<tomllib, pyproject, gitignore, unreadable, config, gitignore_spec,
                   stack, files_to_process>>

\* lines 289-303, one file
WriteFile ==
    /\ pc = "write"
    /\ next_file <= Len(files_to_process)
    /\ LET full_path     == files_to_process[next_file]
           read          == Decode(Content(RelPath(full_path, root_directory)), DecodeErrors)
           relative_path == Posix(RelPath(full_path, root_directory))
           lang          == LStrip(SplitExt(relative_path), ".")
       IN  IF OpenFails(full_path)
           THEN /\ log' = Append(log, Log("WARNING", "Could not read or process file", full_path))
                /\ UNCHANGED output
                /\ pc' = pc
           ELSE IF read.raised
           \* line 301 names relative_path, which line 294 has not set for
           \* this file: it is the last written file's, or unbound (a NameError
           \* that ends the run at line 307)
           THEN /\ UNCHANGED output
                /\ IF Len(output) > 1
                   THEN /\ log' = Append(log, Log("WARNING", "Skipping binary or non-UTF-8 file",
                                                  output[Len(output)].heading))
                        /\ pc' = pc
                   ELSE /\ log' = Append(log, Log("ERROR", "An unexpected error occurred", ""))
                        /\ pc' = "done"
           ELSE /\ output' = Append(output,
                       [heading |-> relative_path, lang |-> lang, text |-> read.text])
                /\ UNCHANGED log
                /\ pc' = pc
    /\ next_file' = next_file + 1
    /\ UNCHANGED <<tomllib, pyproject, gitignore, unreadable, config, gitignore_spec,
                   stack, files_to_process>>

\* line 305
Finish ==
    /\ pc = "write"
    /\ next_file > Len(files_to_process)
    /\ log' = Append(log, Log("INFO", "Successfully created context file", ""))
    /\ pc' = "done"
    /\ UNCHANGED <<tomllib, pyproject, gitignore, unreadable, config, gitignore_spec,
                   stack, files_to_process, next_file, output>>

---------------------------------------------------------------------------
(* The projects main is run on *)

\* the arrays a project's section holds under each key
ProjectPool(key) ==
    CASE key = "allowed_dirs"       -> {Arr(<<"src/">>), Arr(<<"build/", "src/src">>), Arr(<<>>)}
      [] key = "allowed_files"      -> {Arr(<<"build/run.log", "src/.env", "run.log">>)}
      [] key = "allowed_extensions" -> {Arr(<<".log">>), Arr(<<"", ".png">>)}
      [] key = "ignored_dirs"       -> {Arr(<<"src/src">>)}
      [] key = "ignored_files"      -> {Arr(<<"src/main.go">>), Arr(<<"main.go">>)}
      [] key = "ignored_extensions" -> {Arr(<<".go">>), Arr(<<"">>)}

ProjectSections ==
    UNION { { s \in [K -> UNION {ProjectPool(k) : k \in K}] : \A k \in K : s[k] \in ProjectPool(k) }
            : K \in {K \in SUBSET PolicyKeys : Cardinality(K) <= MaxKeys /\ K # {}} }

ProjectDocuments ==
    {Missing} \cup {Document("table", "table", s) : s \in ProjectSections}

GitignoreFiles ==
    { NoFile,
      File(<<"# comments only">>),
      File(<<"# generated", "", "*.go", "!/main.go">>),
      File(<<"src/">>),
      File(<<"/src/src/", "ma?n.*">>) }

UnreadablePaths == { {}, {"src"}, {"main.go"} }

Init ==
    /\ tomllib = TRUE
    /\ pyproject \in ProjectDocuments
    /\ gitignore \in GitignoreFiles
    /\ unreadable \in UnreadablePaths
    /\ pc = "load_config"
    /\ config = NoConfig
    /\ gitignore_spec = None
    /\ stack = <<>>
    /\ files_to_process = <<>>
    /\ next_file = 1
    /\ output = <<>>
    /\ log = <<>>

Next ==
    \/ LoadConfig
    \/ LoadGitignoreSpec
    \/ EnterDiscover
    \/ WalkDir
    \/ Return
    \/ OpenOutput
    \/ WriteFile
    \/ Finish

\* main from line 272 on, over the projects
Spec == Init /\ [][Next]_vars


---------------------------------------------------------------------------
(* Vocabulary of the properties: the tree and the policy as the            *)
(* specification words them, on root-relative POSIX paths                  *)

RECURSIVE DirsAtDepth(_)
DirsAtDepth(n) ==
    IF n = 0 THEN {"."}
    ELSE { IF d = "." THEN DirNames[i] ELSE d \o "/" \o DirNames[i]
           : d \in DirsAtDepth(n - 1), i \in 1..Len(DirNames) }

\* the directories below the root, and the files of the tree
TreeDirs == UNION {DirsAtDepth(n) : n \in 1..MaxDepth}
TreeFiles ==
    {FileNames[i] : i \in 1..Len(FileNames)}
    \cup {d \o "/" \o FileNames[i] : d \in TreeDirs, i \in 1..Len(FileNames)}

NameOf(path) == SubSeq(path, RFind(path, "/") + 1, Len(path))
ExtensionOf(path) == SplitExt(NameOf(path))

\* the directories a path lies beneath, at any depth
DirsAbove(path) == {SubSeq(path, 1, i - 1) : i \in {j \in 1..Len(path) : Char(path, j) = "/"}}

\* the file is in the list discover_files returned
Listed(f) == \E i \in 1..Len(files_to_process) : files_to_process[i] = root_directory \o "/" \o f

Returned == pc = "discovered"

PrunedByConfig(d) == NameOf(d) \in config.ignored_dirs \/ d \in config.ignored_dirs
PrunedByGitignore(d) == match_file(gitignore_spec, d \o "/")
Pruned(d) == PrunedByConfig(d) \/ PrunedByGitignore(d)

\* the walk visits the file's directory: no directory above it is pruned or
\* unreadable
Visited(f) == \A d \in DirsAbove(f) : ~Pruned(d) /\ d \notin unreadable

ForceAllowed(f) ==
    \/ f \in config.allowed_files
    \/ (ExtensionOf(f) # "" /\ ExtensionOf(f) \in config.allowed_extensions)

UnderAllowedDir(f) == \E p \in config.allowed_dirs : StartsWith(f, p)

InIgnoreLists(f) ==
    \/ NameOf(f) \in config.ignored_files
    \/ f \in config.ignored_files
    \/ (ExtensionOf(f) # "" /\ ExtensionOf(f) \in config.ignored_extensions)

Gitignored(f) == match_file(gitignore_spec, f)

---------------------------------------------------------------------------
(* Properties of discover_files *)

C3_AllowedDirsRestriction ==
    Returned =>
        /\ config.allowed_dirs # {} =>
              \A f \in TreeFiles : Listed(f) => (ForceAllowed(f) \/ UnderAllowedDir(f))
        /\ config.allowed_dirs = {} =>
              \A f \in TreeFiles :
                  (Visited(f) /\ ~InIgnoreLists(f) /\ ~Gitignored(f)) => Listed(f)

C3_Witness ==
    /\ Returned
    /\ config.allowed_dirs # {}
    /\ \E f \in TreeFiles :
          Visited(f) /\ ~UnderAllowedDir(f) /\ ~InIgnoreLists(f) /\ ~Gitignored(f) /\ ~Listed(f)
    /\ \E f \in TreeFiles : UnderAllowedDir(f) /\ ~ForceAllowed(f) /\ Listed(f)

\* C4: exclusion by the ignore lists and .gitignore.  A file that is not
\* force-allowed and whose name or relative path is in ignored_files, or
\* whose non-empty extension is in ignored_extensions, or whose relative
\* path the .gitignore matcher matches, is not listed; a visited file that
\* matches none of these and passes the allowed_dirs restriction is listed.
C4_IgnoreListsAndGitignore ==
    Returned => \A f \in TreeFiles :
        /\ (~ForceAllowed(f) /\ (InIgnoreLists(f) \/ Gitignored(f))) => ~Listed(f)
        /\ ( /\ Visited(f) /\ ~InIgnoreLists(f) /\ ~Gitignored(f)
             /\ config.allowed_dirs # {} => UnderAllowedDir(f) ) => Listed(f)

C4_Witness ==
    /\ Returned
    /\ \E f \in TreeFiles :
          Visited(f) /\ ~ForceAllowed(f) /\ ~InIgnoreLists(f) /\ Gitignored(f) /\ ~Listed(f)
    /\ \E f \in TreeFiles :
          /\ Visited(f) /\ ~ForceAllowed(f) /\ f \in config.ignored_files
          /\ NameOf(f) \notin config.ignored_files /\ ~Listed(f)
    /\ \E f \in TreeFiles : Visited(f) /\ ~ForceAllowed(f) /\ Listed(f)

\* C7, as stated: an allow match overrides an ignore match for every
\* allow-set, allowed_dirs included.  A file under an allowed_dirs prefix
\* is listed even when a directory above it is named in ignored_dirs or the
\* file is in ignored_files or its extension in ignored_extensions.
\* (Stated for the files .gitignore and unreadable directories leave alone,
\* so that only the ignore lists of the policy can exclude them.)
C7_AllowedDirsOverrideIgnores ==
    Returned => \A f \in TreeFiles :
        ( /\ UnderAllowedDir(f)
          /\ ~Gitignored(f)
          /\ \A d \in DirsAbove(f) : d \notin unreadable /\ ~PrunedByGitignore(d) ) => Listed(f)

\* C7, amended: only allowed_files and allowed_extensions override ignores.
\* A file that is not force-allowed is excluded by a pruned directory above
\* it, by the ignore lists and by .gitignore even when it lies under an
\* allowed_dirs prefix; under such a prefix it is listed exactly when it is
\* visited and neither in the ignore lists nor matched by .gitignore.
C7_AllowedDirsDoNotOverride ==
    Returned => \A f \in TreeFiles :
        (UnderAllowedDir(f) /\ ~ForceAllowed(f)) =>
            (Listed(f) <=> (Visited(f) /\ ~InIgnoreLists(f) /\ ~Gitignored(f)))

C7_Witness ==
    /\ Returned
    /\ \E f \in TreeFiles :
          UnderAllowedDir(f) /\ ~ForceAllowed(f) /\ Visited(f) /\ InIgnoreLists(f) /\ ~Listed(f)
    /\ \E f \in TreeFiles :
          UnderAllowedDir(f) /\ ~ForceAllowed(f) /\ ~Visited(f) /\ ~InIgnoreLists(f) /\ ~Listed(f)
    /\ \E f \in TreeFiles : UnderAllowedDir(f) /\ ~ForceAllowed(f) /\ Listed(f)


---------------------------------------------------------------------------
(* Properties of load_config *)

Loaded == pc # "load_config"

Section == pyproject.section

\* the file is read and a non-empty section is applied without an error:
\* a TOML library is there, the section is a non-empty table and every
\* policy key it sets holds a value set() can iterate
AppliedCleanly ==
    /\ tomllib
    /\ pyproject.file = "ok" /\ pyproject.tool = "table" /\ pyproject.llmcontext = "table"
    /\ DOMAIN Section # {}
    /\ \A k \in PolicyKeys \cap DOMAIN Section : Section[k].type # "integer"

\* the values the user supplied under an array-valued key
Supplied(k) == {Section[k].items[i] : i \in 1..Len(Section[k].items)}

\* C5: the policy merge.  When a non-empty section is applied, each allow
\* set is exactly the user's array when the key is present (the empty array
\* gives the empty set) and the default otherwise; each ignore set is the
\* default set united with the user's array, so a superset of the default.
C5_PolicyMerge ==
    (Loaded /\ AppliedCleanly) =>
        /\ \A k \in Range(AllowedKeys) :
              /\ k \notin DOMAIN Section => config[k] = DefaultConfig[k]
              /\ (k \in DOMAIN Section /\ Section[k].type = "array") => config[k] = Supplied(k)
        /\ \A k \in Range(IgnoredKeys) :
              /\ DefaultConfig[k] \subseteq config[k]
              /\ k \notin DOMAIN Section => config[k] = DefaultConfig[k]
              /\ (k \in DOMAIN Section /\ Section[k].type = "array") =>
                    config[k] = DefaultConfig[k] \cup Supplied(k)

C5_Witness ==
    /\ Loaded /\ AppliedCleanly
    /\ \E k \in Range(AllowedKeys) \cap DOMAIN Section :
          Section[k].type = "array" /\ config[k] = Supplied(k) /\ config[k] # {}
    /\ \E k \in Range(IgnoredKeys) \cap DOMAIN Section :
          /\ Section[k].type = "array" /\ ~(Supplied(k) \subseteq DefaultConfig[k])
          /\ config[k] = DefaultConfig[k] \cup Supplied(k)

\* reading, parsing or applying the file raises: the file is malformed,
\* "tool" or "tool.llmcontext" is no table, or a policy key holds a value
\* that cannot be iterated
RaisesError ==
    /\ tomllib
    /\ \/ pyproject.file = "malformed"
       \/ /\ pyproject.file = "ok"
          /\ \/ pyproject.tool = "scalar"
             \/ pyproject.tool = "table" /\ pyproject.llmcontext = "scalar"
             \/ /\ pyproject.tool = "table" /\ pyproject.llmcontext = "table"
                /\ \E k \in PolicyKeys \cap DOMAIN Section : Section[k].type = "integer"

NoSectionRead ==
    \/ pyproject.file = "missing"
    \/ pyproject.file = "ok" /\ (pyproject.tool = "absent" \/ pyproject.llmcontext = "absent")
    \/ /\ pyproject.file = "ok" /\ pyproject.tool = "table" /\ pyproject.llmcontext = "table"
       /\ DOMAIN Section = {}

\* C6: fallback to defaults.  With the file missing, the section missing or
\* empty, or an error raised while reading, parsing or applying it, the
\* policy returned is the six default sets, with no user value in it.
C6_FallbackToDefaults ==
    (Loaded /\ (NoSectionRead \/ RaisesError)) => config = DefaultConfig

\* C9: every entry of the extension sets of a policy loaded without user
\* overrides begins with ".".
C9_ExtensionsBeginWithDot ==
    (Loaded /\ NoSectionRead) =>
        \A e \in config.ignored_extensions \cup config.allowed_extensions : StartsWith(e, ".")


---------------------------------------------------------------------------
(* Properties of the run as a whole *)

Done == pc = "done"

\* the file's content is not UTF-8 text
Undecodable(f) == \E i \in 1..Len(Content(f)) : ~ValidByte(Content(f)[i])

HasBlock(f) == \E i \in 2..Len(output) : output[i].heading = f

Warned(path) ==
    \E i \in 1..Len(log) :
        /\ log[i].level \in {"WARNING", "ERROR"}
        /\ log[i].about \in {path, root_directory \o "/" \o path}

\* C8: undecodable files are skipped.  For every discovered file whose
\* content is not UTF-8 text no block is written and a warning is logged,
\* and every block written is that of a discovered file whose content
\* decoded.
C8_UndecodableSkipped ==
    Done =>
        /\ \A f \in TreeFiles : (Listed(f) /\ Undecodable(f)) => (~HasBlock(f) /\ Warned(f))
        /\ \A i \in 2..Len(output) :
              \E f \in TreeFiles : Listed(f) /\ output[i].heading = f /\ ~Undecodable(f)

\* the walk comes to list the directory: it is below visited, unpruned
\* directories and is not pruned itself
Entered(d) == ~Pruned(d) /\ \A a \in DirsAbove(d) : ~Pruned(a) /\ a \notin unreadable

\* C10: an unreadable subdirectory.  The run ends without the error, the
\* subtree contributes no file, a log entry is emitted for the directory,
\* and the files of the other directories are listed as usual.
C10_UnreadableSubdirLogged ==
    Done => \A d \in TreeDirs : (d \in unreadable /\ Entered(d)) =>
        /\ \A f \in TreeFiles : d \in DirsAbove(f) => ~Listed(f)
        /\ \E i \in 1..Len(log) : log[i].about \in {d, root_directory \o "/" \o d}
        /\ \A f \in TreeFiles :
              ( /\ Visited(f)
                /\ ForceAllowed(f)
                     \/ ( /\ config.allowed_dirs # {} => UnderAllowedDir(f)
                          /\ ~InIgnoreLists(f) /\ ~Gitignored(f) ) ) => Listed(f)

============================================================================
